---------------------------- MODULE Spec2Model ----------------------------
(***************************************************************************)
(* Model of the VAIexpress order service (src/index.js): the pricing       *)
(* function computeTotals, the rate provider getBaseRate, the order        *)
(* handlers (POST/GET/PUT/DELETE /api/orders) and the summary handler      *)
(* (GET /api/stats/summary) over a MySQL orders table and settings row.    *)
(***************************************************************************)
EXTENDS Integers, Sequences, FiniteSets, TLC

VARIABLES
    call,       \* one invocation of computeTotals: arguments and result
    settings,   \* the settings table: the rows with id = 1 (at most one)
    orders,     \* the orders table: id -> row
    nextId,     \* the table's AUTO_INCREMENT counter
    req,        \* per handler: an order request suspended at an await
    res,        \* the last HTTP response sent by an order handler
    made,       \* history: per id, the body and rate of the create that made it
    gone,       \* history: ids removed by a delete
    sum,        \* the summary handler's position, locals and query results
    dirty       \* history: a write committed between two queries of the summary

vars == <<call, settings, orders, nextId, req, res, made, gone, sum, dirty>>

(***************************************************************************)
(* JavaScript values.  A value is a record [t, n, s]: its type tag, its    *)
(* numeric content and its text.  NaN is the number whose text is "NaN".   *)
(***************************************************************************)
Undefined == [t |-> "undefined", n |-> 0, s |-> ""]
Null      == [t |-> "null", n |-> 0, s |-> ""]
NaN       == [t |-> "number", n |-> 0, s |-> "NaN"]
Num(k)    == [t |-> "number", n |-> k, s |-> ""]
Str(x)    == [t |-> "string", n |-> 0, s |-> x]
\* a string holding the decimal text of k, e.g. "100"
NumStr(k) == [t |-> "string", n |-> k, s |-> "digits"]

IsNaN(v) == v.t = "number" /\ v.s = "NaN"
IsNum(v) == v.t = "number" /\ v.s # "NaN"

\* ToBoolean: undefined, null, 0, NaN and "" are falsy, every other value
\* (the string "0" included) is truthy
Truthy(v) ==
    CASE v.t = "undefined" -> FALSE
      [] v.t = "null"      -> FALSE
      [] v.t = "number"    -> ~IsNaN(v) /\ v.n # 0
      [] v.t = "string"    -> v.s # ""

\* a || b
Or(a, b) == IF Truthy(a) THEN a ELSE b

\* Number(v): undefined -> NaN, null -> 0, "" -> 0, decimal text -> its
\* value, any other text -> NaN
Number(v) ==
    CASE v.t = "undefined" -> NaN
      [] v.t = "null"      -> Num(0)
      [] v.t = "number"    -> v
      [] v.t = "string"    -> IF v.s = "" THEN Num(0)
                              ELSE IF v.s = "digits" THEN Num(v.n)
                              ELSE NaN

\* IEEE arithmetic on the integers of the model: NaN is absorbing
Add(a, b) == IF IsNaN(a) \/ IsNaN(b) THEN NaN ELSE Num(a.n + b.n)
Sub(a, b) == IF IsNaN(a) \/ IsNaN(b) THEN NaN ELSE Num(a.n - b.n)
Mul(a, b) == IF IsNaN(a) \/ IsNaN(b) THEN NaN ELSE Num(a.n * b.n)

(***************************************************************************)
(* computeTotals(payload, baseRate)                                        *)
(***************************************************************************)
NumericInputs == {"price_thb", "shipping_thb", "service_fee_lak",
                  "th_to_la_charge_lak", "actual_th_to_la_cost_lak"}

DerivedFields == {"price_lak", "shipping_lak", "total_lak",
                  "rate_profit_lak", "net_profit_lak"}

\* Number(payload.f || 0)
Coerce(v) == Number(Or(v, Num(0)))

\* (priceThb + shipThb) * (customerRate - baseRate)
rateProfitLakMut(priceThb, shipThb, customerRate, baseRate) ==
    Mul(Add(priceThb, shipThb), customerRate)
rateProfitLak(priceThb, shipThb, customerRate, baseRate) ==
    Mul(Add(priceThb, shipThb), Sub(customerRate, baseRate))

computeTotals(payload, baseRate) ==
    LET priceThb     == Coerce(payload.price_thb)
        shipThb      == Coerce(payload.shipping_thb)
        serviceFee   == Coerce(payload.service_fee_lak)
        thToLaCharge == Coerce(payload.th_to_la_charge_lak)
        actualCost   == Coerce(payload.actual_th_to_la_cost_lak)
        customerRate == Number(Or(payload.customer_rate, baseRate))
        priceLak     == Mul(priceThb, customerRate)
        shipLak      == Mul(shipThb, customerRate)
        totalLak     == Add(Add(Add(priceLak, shipLak), serviceFee), thToLaCharge)
        costLak      == Add(Add(Mul(priceThb, baseRate), Mul(shipThb, baseRate)), actualCost)
        netProfitLak == Sub(totalLak, costLak)
    IN  [price_thb |-> priceThb,
         shipping_thb |-> shipThb,
         customer_rate |-> customerRate,
         service_fee_lak |-> serviceFee,
         th_to_la_charge_lak |-> thToLaCharge,
         actual_th_to_la_cost_lak |-> actualCost,
         price_lak |-> priceLak,
         shipping_lak |-> shipLak,
         total_lak |-> totalLak,
         rate_profit_lak |-> rateProfitLak(priceThb, shipThb, customerRate, baseRate),
         net_profit_lak |-> netProfitLak]

(***************************************************************************)
(* Calendar dates.  The service runs on 2024-05-31: that is the value of   *)
(* new Date().toISOString().slice(0, 10).  slice(0, 4) and slice(5, 7) of  *)
(* the date strings of the model are tabulated.                            *)
(***************************************************************************)
Today == Str("2024-05-31")
NextDay == Str("2024-06-01")

\* today.slice(0, 4), which MySQL compares with YEAR(order_date)
SliceYear(d) == IF d.s \in {"2024-05-31", "2024-06-01"} THEN 2024 ELSE 0
\* today.slice(5, 7), which MySQL compares with MONTH(order_date)
SliceMonth(d) == IF d.s = "2024-05-31" THEN 5 ELSE IF d.s = "2024-06-01" THEN 6 ELSE 0

(***************************************************************************)
(* Storage: the settings row and the orders table.                         *)
(***************************************************************************)
\* getBaseRate over the rows of SELECT exchange_rate FROM settings WHERE id = 1
getBaseRate(rows) == IF Len(rows) # 0 THEN Number(rows[1].exchange_rate) ELSE Num(0)

\* the column list of the INSERT and of the UPDATE, in statement order
Columns == <<"order_date", "customer_name", "product_link",
             "price_thb", "shipping_thb", "rate", "customer_rate", "rate_profit_lak",
             "price_lak", "shipping_lak",
             "service_fee_lak", "th_to_la_charge_lak", "actual_th_to_la_cost_lak",
             "total_lak", "net_profit_lak",
             "payment_status", "order_status",
             "tracking_no", "carrier", "tracking_link">>

\* the payload object built by POST and by PUT
Payload(body, baseRate, today) ==
    [order_date     |-> Or(body.order_date, today),
     customer_name  |-> Or(body.customer_name, Str("")),
     product_link   |-> Or(body.product_link, Str("")),
     payment_status |-> Or(body.payment_status, Str("Unpaid")),
     order_status   |-> Or(body.order_status, Str("Pending")),
     tracking_no    |-> Or(body.tracking_no, Str("")),
     carrier        |-> Or(body.carrier, Str("")),
     tracking_link  |-> Or(body.tracking_link, Str("")),
     rate           |-> baseRate] @@ computeTotals(body, baseRate)

\* the params array, in the order the statement's placeholders are bound
ParamsMut(payload) ==
    <<payload.order_date, payload.customer_name, payload.product_link,
      payload.price_thb, payload.shipping_thb, payload.rate, payload.customer_rate,
      payload.rate_profit_lak,
      payload.shipping_lak, payload.price_lak,
      payload.service_fee_lak, payload.th_to_la_charge_lak,
      payload.actual_th_to_la_cost_lak,
      payload.total_lak, payload.net_profit_lak,
      payload.payment_status, payload.order_status,
      payload.tracking_no, payload.carrier, payload.tracking_link>>
Params(payload) ==
    <<payload.order_date, payload.customer_name, payload.product_link,
      payload.price_thb, payload.shipping_thb, payload.rate, payload.customer_rate,
      payload.rate_profit_lak,
      payload.price_lak, payload.shipping_lak,
      payload.service_fee_lak, payload.th_to_la_charge_lak,
      payload.actual_th_to_la_cost_lak,
      payload.total_lak, payload.net_profit_lak,
      payload.payment_status, payload.order_status,
      payload.tracking_no, payload.carrier, payload.tracking_link>>

\* the row a statement writes: the i-th column receives the i-th parameter
RowOf(params) ==
    [c \in {Columns[i] : i \in 1..Len(Columns)} |->
        params[CHOOSE i \in 1..Len(Columns) : Columns[i] = c]]

\* result.affectedRows of an UPDATE or DELETE ... WHERE id = ?
AffectedRowsMut(T, id) == 1
AffectedRows(T, id) == IF id \in DOMAIN T THEN 1 ELSE 0

\* the driver writes a NaN parameter as the bare word NaN, which the server
\* rejects: a statement with a NaN parameter throws
Bindable(params) == \A i \in 1..Len(params) : ~IsNaN(params[i])

(***************************************************************************)
(* Request bodies.                                                         *)
(***************************************************************************)
\* the bound on THB and LAK amounts drawn for the pricing function
MaxAmt == 1
\* the bound on the ids the table assigns
MaxId == 2

BaseRates == {1300, 1350}

\* a JSON body: the six numeric inputs, the date and the payment status vary,
\* the other text fields are absent
Body(price, ship, fee, charge, cost, cust, date, pay) ==
    [order_date |-> date, customer_name |-> Undefined, product_link |-> Undefined,
     price_thb |-> price, shipping_thb |-> ship, service_fee_lak |-> fee,
     th_to_la_charge_lak |-> charge, actual_th_to_la_cost_lak |-> cost,
     customer_rate |-> cust, payment_status |-> pay, order_status |-> Undefined,
     tracking_no |-> Undefined, carrier |-> Undefined, tracking_link |-> Undefined]

\* values a numeric JSON field can hold: absent, a number, decimal text,
\* other text
Amounts == {Undefined, Str("abc"), NumStr(1)} \cup {Num(k) : k \in -1..MaxAmt}

PriceBodies ==
    {Body(p, sh, f, g, a, c, Undefined, Undefined) :
        p \in Amounts, sh \in {Undefined, Str("abc"), Num(MaxAmt)},
        f \in {Undefined, Str("abc"), Num(MaxAmt)}, g \in {Undefined, Num(2)},
        a \in {Undefined, Str("abc"), Num(3)},
        c \in {Undefined, Null, Num(0), Num(2), NumStr(2), Str("abc")}}

PriceRates == {Num(k) : k \in 0..MaxAmt + 1}

\* bodies of the order handlers, after the spec's pricing scenario: 100 THB,
\* 20 THB shipping, 5000 + 2000 LAK fees, 3000 LAK cost
Scenario(price, cust) ==
    Body(price, Num(20), Num(5000), Num(2000), Num(3000), cust, Undefined, Undefined)

\* creates: the customer rate absent, so that it defaults to the base rate,
\* the price 100 or no number
PostBodies == {Scenario(Num(100), Undefined), Scenario(Str("abc"), Undefined)}

\* updates: the customer rate 1300, or a price that is no number
PutBodies == {Scenario(Num(100), Num(1300)), Scenario(Str("abc"), Num(1350))}

\* one order request is suspended at an await at a time; reads and deletes,
\* which are single queries, run between its two steps
Handlers == {1}

Idle == [pc |-> "idle", id |-> 0, body |-> <<>>, baseRate |-> Num(0)]

NoRes == [op |-> "none", id |-> 0, status |-> 0, body |-> <<>>]
NoCall == [payload |-> <<>>, baseRate |-> Num(0), done |-> FALSE, out |-> <<>>]
NoSum == [pc |-> "idle", today |-> Undefined,
          ctx |-> [rate |-> Num(0), updated_at |-> Null], results |-> <<>>,
          status |-> 0, body |-> <<>>, settled |-> {}]

(***************************************************************************)
(* The pricing function alone.                                             *)
(***************************************************************************)
InitPrice ==
    /\ call \in [payload : PriceBodies, baseRate : PriceRates, done : {FALSE}, out : {<<>>}]
    /\ settings = <<>>
    /\ orders = <<>>
    /\ nextId = 1
    /\ req = [h \in Handlers |-> Idle]
    /\ res = NoRes
    /\ made = <<>>
    /\ gone = {}
    /\ sum = NoSum
    /\ dirty = FALSE

Price ==
    /\ ~call.done
    /\ call' = [call EXCEPT !.done = TRUE,
                            !.out = computeTotals(call.payload, call.baseRate)]
    /\ UNCHANGED <<settings, orders, nextId, req, res, made, gone, sum, dirty>>

NextPrice == Price

SpecPrice == InitPrice /\ [][NextPrice]_vars

\* JavaScript ==  on two numbers: NaN equals nothing
JsEq(a, b) == ~IsNaN(a) /\ ~IsNaN(b) /\ a.n = b.n

\* a JSON field that is absent or holds text that is no number
Unusable(v) == v.t = "undefined" \/ (v.t = "string" /\ IsNaN(Number(v)))

\* C4: the pricing function is total and permissive: every missing or
\* non-numeric numeric input counts as 0, a missing customer_rate as the base
\* rate, and no field of the result is NaN.
C4_TotalAndPermissive ==
    call.done =>
        /\ \A f \in DOMAIN call.out : IsNum(call.out[f])
        /\ \A f \in NumericInputs :
              Unusable(call.payload[f]) => call.out[f] = Num(0)
        /\ call.payload.customer_rate = Undefined
              => call.out.customer_rate = call.baseRate

\* C7: zero-cost invariant: with base rate 0 and customer_rate unset,
\* price_lak = shipping_lak = rate_profit_lak = 0 and
\* net_profit_lak = total_lak - actual_th_to_la_cost_lak, for every input.
C7_ZeroCost ==
    (call.done /\ call.baseRate = Num(0) /\ call.payload.customer_rate = Undefined) =>
        /\ JsEq(call.out.price_lak, Num(0))
        /\ JsEq(call.out.shipping_lak, Num(0))
        /\ JsEq(call.out.rate_profit_lak, Num(0))
        /\ JsEq(call.out.net_profit_lak,
                Sub(call.out.total_lak, call.out.actual_th_to_la_cost_lak))

\* C8: spread isolation: when customer_rate equals the base rate, or is
\* omitted and defaults to it, rate_profit_lak is 0 whatever price_thb and
\* shipping_thb are.
C8_SpreadIsolation ==
    (call.done /\ (call.payload.customer_rate = Undefined
                   \/ JsEq(Number(call.payload.customer_rate), call.baseRate))) =>
        JsEq(call.out.rate_profit_lak, Num(0))

(***************************************************************************)
(* The order handlers.  A handler runs from one await to the next in one   *)
(* step; every pool.query either returns or throws (ok = FALSE), and a     *)
(* throw is answered with status 500 by the handler's catch block.  res    *)
(* keeps the status of the last response, and the body of a 200 to a GET.  *)
(***************************************************************************)
Respond(op, id, status, body) == [op |-> op, id |-> id, status |-> status, body |-> body]

\* history value of an id whose row an update has replaced
Updated == [body |-> <<>>, rate |-> Num(0), intact |-> FALSE]

\* the settings row is written outside the service
SetRate(r) ==
    /\ settings' = <<[exchange_rate |-> NumStr(r), updated_at |-> Today]>>
    /\ UNCHANGED <<call, orders, nextId, req, res, made, gone, sum, dirty>>

\* POST /api/orders up to the end of await getBaseRate()
PostRate(h, body, ok) ==
    /\ req[h].pc = "idle"
    /\ IF ok
       THEN /\ req' = [req EXCEPT ![h] = [pc |-> "post", id |-> 0, body |-> body,
                                          baseRate |-> getBaseRate(settings)]]
            /\ res' = res
       ELSE /\ req' = req
            /\ res' = Respond("post", 0, 500, <<>>)
    /\ UNCHANGED <<call, settings, orders, nextId, made, gone, sum, dirty>>

\* POST /api/orders from computeTotals to the response
PostInsert(h, ok) ==
    /\ req[h].pc = "post"
    /\ nextId <= MaxId
    /\ LET payload == Payload(req[h].body, req[h].baseRate, Today)
           params  == Params(payload)
       IN  IF ok /\ Bindable(params)
           THEN /\ orders' = (nextId :> RowOf(params)) @@ orders
                /\ nextId' = nextId + 1
                /\ made' = (nextId :> [body |-> req[h].body, rate |-> req[h].baseRate,
                                       intact |-> TRUE]) @@ made
                /\ res' = Respond("post", nextId, 201, <<>>)
                /\ dirty' = dirty
           ELSE /\ res' = Respond("post", 0, 500, <<>>)
                /\ UNCHANGED <<orders, nextId, made, dirty>>
    /\ req' = [req EXCEPT ![h] = Idle]
    /\ UNCHANGED <<call, settings, gone, sum>>

\* PUT /api/orders/:id up to the end of await getBaseRate()
PutRate(h, id, body, ok) ==
    /\ req[h].pc = "idle"
    /\ IF ok
       THEN /\ req' = [req EXCEPT ![h] = [pc |-> "put", id |-> id, body |-> body,
                                          baseRate |-> getBaseRate(settings)]]
            /\ res' = res
       ELSE /\ req' = req
            /\ res' = Respond("put", id, 500, <<>>)
    /\ UNCHANGED <<call, settings, orders, nextId, made, gone, sum, dirty>>

\* PUT /api/orders/:id from computeTotals to the response
PutUpdate(h, ok) ==
    /\ req[h].pc = "put"
    /\ LET id      == req[h].id
           payload == Payload(req[h].body, req[h].baseRate, Today)
           params  == Params(payload)
           affectedRows == AffectedRows(orders, id)
       IN  IF ok /\ Bindable(params)
           THEN IF affectedRows = 0
                THEN /\ res' = Respond("put", id, 404, <<>>)
                     /\ UNCHANGED <<orders, made, dirty>>
                ELSE /\ orders' = [orders EXCEPT ![id] = RowOf(params)]
                     /\ made' = [made EXCEPT ![id] = Updated]
                     /\ res' = Respond("put", id, 200, <<>>)
                     /\ dirty' = dirty
           ELSE /\ res' = Respond("put", id, 500, <<>>)
                /\ UNCHANGED <<orders, made, dirty>>
    /\ req' = [req EXCEPT ![h] = Idle]
    /\ UNCHANGED <<call, settings, nextId, gone, sum>>

\* GET /api/orders/:id
GetOrder(id, ok) ==
    /\ res' = IF ~ok THEN Respond("get", id, 500, <<>>)
              ELSE IF id \notin DOMAIN orders THEN Respond("get", id, 404, <<>>)
              ELSE Respond("get", id, 200, orders[id])
    /\ UNCHANGED <<call, settings, orders, nextId, req, made, gone, sum, dirty>>

\* DELETE /api/orders/:id
DeleteOrder(id, ok) ==
    /\ LET affectedRows == AffectedRows(orders, id)
       IN  IF ~ok
           THEN /\ res' = Respond("delete", id, 500, <<>>)
                /\ UNCHANGED <<orders, gone, dirty>>
           ELSE IF affectedRows = 0
           THEN /\ res' = Respond("delete", id, 404, <<>>)
                /\ UNCHANGED <<orders, gone, dirty>>
           ELSE /\ orders' = [i \in DOMAIN orders \ {id} |-> orders[i]]
                /\ gone' = gone \cup {id}
                /\ res' = Respond("delete", id, 200, <<>>)
                /\ dirty' = dirty
    /\ UNCHANGED <<call, settings, nextId, req, made, sum>>

Init ==
    /\ call = NoCall
    /\ settings = <<[exchange_rate |-> NumStr(1300), updated_at |-> Today]>>
    /\ orders = <<>>
    /\ nextId = 1
    /\ req = [h \in Handlers |-> Idle]
    /\ res = NoRes
    /\ made = <<>>
    /\ gone = {}
    /\ sum = NoSum
    /\ dirty = FALSE

Next ==
    \/ \E r \in BaseRates : SetRate(r)
    \/ \E h \in Handlers, body \in PostBodies, ok \in BOOLEAN : PostRate(h, body, ok)
    \/ \E h \in Handlers, ok \in BOOLEAN : PostInsert(h, ok)
    \/ \E h \in Handlers, id \in 1..MaxId, body \in PutBodies, ok \in BOOLEAN :
          PutRate(h, id, body, ok)
    \/ \E h \in Handlers, ok \in BOOLEAN : PutUpdate(h, ok)
    \/ \E id \in 1..MaxId, ok \in BOOLEAN : GetOrder(id, ok)
    \/ \E id \in 1..MaxId, ok \in BOOLEAN : DeleteOrder(id, ok)

Spec == Init /\ [][Next]_vars

(***************************************************************************)
(* GET /api/stats/summary.                                                 *)
(***************************************************************************)
\* the number of aggregate queries handed to Promise.all
NumQueries == 11

RECURSIVE SumCol(_, _, _)
\* the total of column col over the rows of T with an id in S
SumCol(T, S, col) ==
    IF S = {} THEN 0
    ELSE LET i == CHOOSE x \in S : TRUE
         IN  T[i][col].n + SumCol(T, S \ {i}, col)

\* SELECT SUM(col) AS v: NULL over no rows, else the decimal text of the total
SqlSum(T, S, col) == IF S = {} THEN Null ELSE NumStr(SumCol(T, S, col))
\* SELECT COUNT(*) AS c
SqlCount(S) == Num(Cardinality(S))

\* the value (v or c) in the one row the i-th query of the array returns
AggregateMut(i, T, today) ==
    LET onDay   == {id \in DOMAIN T : T[id].order_date = today}
        inMonth == {id \in DOMAIN T :
                       /\ SliceYear(T[id].order_date) = SliceYear(today)
                       /\ SliceMonth(T[id].order_date) = SliceMonth(today)}
        paid    == {id \in DOMAIN T : T[id].payment_status = Str("Paid")}
        unpaid  == {id \in DOMAIN T : T[id].payment_status = Str("Unpaid")}
    IN  CASE i = 1  -> SqlSum(T, onDay, "total_lak")
          [] i = 2  -> SqlSum(T, onDay, "net_profit_lak")
          [] i = 3  -> SqlSum(T, onDay, "rate_profit_lak")
          [] i = 4  -> SqlCount(onDay)
          [] i = 5  -> SqlSum(T, inMonth, "total_lak")
          [] i = 6  -> SqlSum(T, inMonth, "net_profit_lak")
          [] i = 7  -> SqlCount(paid)
          [] i = 8  -> SqlCount(unpaid)
          [] i = 9  -> SqlCount(paid)
          [] i = 10 -> SqlSum(T, unpaid, "total_lak")
          [] i = 11 -> SqlSum(T, paid, "total_lak")

Aggregate(i, T, today) ==
    LET onDay   == {id \in DOMAIN T : T[id].order_date = today}
        inMonth == {id \in DOMAIN T :
                       /\ SliceYear(T[id].order_date) = SliceYear(today)
                       /\ SliceMonth(T[id].order_date) = SliceMonth(today)}
        paid    == {id \in DOMAIN T : T[id].payment_status = Str("Paid")}
        unpaid  == {id \in DOMAIN T : T[id].payment_status = Str("Unpaid")}
    IN  CASE i = 1  -> SqlSum(T, onDay, "total_lak")
          [] i = 2  -> SqlSum(T, onDay, "net_profit_lak")
          [] i = 3  -> SqlSum(T, onDay, "rate_profit_lak")
          [] i = 4  -> SqlCount(onDay)
          [] i = 5  -> SqlSum(T, inMonth, "total_lak")
          [] i = 6  -> SqlSum(T, inMonth, "net_profit_lak")
          [] i = 7  -> SqlCount(paid)
          [] i = 8  -> SqlCount(unpaid)
          [] i = 9  -> SqlCount(DOMAIN T)
          [] i = 10 -> SqlSum(T, unpaid, "total_lak")
          [] i = 11 -> SqlSum(T, DOMAIN T, "total_lak")

\* a destructuring default: { v: x = d } binds d when v is undefined
Default(v, d) == IF v = Undefined THEN d ELSE v

\* const [[{ rate = 0, updated_at = null } = {}]] = rows of the settings query
RateContextMut(rows) ==
    IF Len(rows) = 0 THEN [rate |-> Undefined, updated_at |-> Undefined]
    ELSE [rate |-> Default(rows[1].exchange_rate, Num(0)),
          updated_at |-> Default(rows[1].updated_at, Null)]
RateContext(rows) ==
    IF Len(rows) = 0 THEN [rate |-> Num(0), updated_at |-> Null]
    ELSE [rate |-> Default(rows[1].exchange_rate, Num(0)),
          updated_at |-> Default(rows[1].updated_at, Null)]

Pending == [st |-> "pending", v |-> Undefined]
Done(v) == [st |-> "done", v |-> v]

\* Promise.all(queries) is fulfilled: every query has returned
AllSettledMut(results) == \A i \in 1..(NumQueries - 1) : results[i].st = "done"
AllSettled(results) == \A i \in 1..NumQueries : results[i].st = "done"

\* the object handed to res.json
Summary(today, ctx, results) ==
    LET N(i) == Number(Or(Default(results[i].v, Num(0)), Num(0)))
    IN  [date |-> today,
         rate |-> ctx.rate,
         rate_updated |-> ctx.updated_at,
         today |-> [total_lak |-> N(1),
                    profit_total |-> N(2),
                    rate_profit |-> N(3),
                    other_profit |-> Sub(N(2), N(3)),
                    orders_count |-> N(4)],
         month |-> [total_lak |-> N(5),
                    profit_total |-> N(6),
                    period |-> <<SliceYear(today), SliceMonth(today)>>],
         payments |-> [paid_orders |-> N(7),
                       unpaid_orders |-> N(8),
                       unpaid_value_lak |-> N(10)],
         gross_value_lak |-> N(11),
         all_orders_count |-> N(9)]

\* the summary handler answered: its status and body, the queries that had
\* returned when it answered
Answered(status, body, settled) ==
    [pc |-> "done", today |-> Undefined, ctx |-> RateContext(<<>>), results |-> <<>>,
     status |-> status, body |-> body, settled |-> settled]

\* the handler up to the end of the settings query; on its return the eleven
\* queries are handed to the pool
SumStart(date, ok) ==
    /\ sum.pc \in {"idle", "done"}
    /\ sum' = IF ok
              THEN [pc |-> "queries", today |-> Or(date, Today),
                    ctx |-> RateContext(settings),
                    results |-> [i \in 1..NumQueries |-> Pending],
                    status |-> 0, body |-> <<>>, settled |-> {}]
              ELSE Answered(500, <<>>, {})
    /\ dirty' = FALSE
    /\ UNCHANGED <<call, settings, orders, nextId, req, res, made, gone>>

\* the i-th query runs against the table and returns its row
SumQuery(i) ==
    /\ sum.pc = "queries"
    /\ sum.results[i].st = "pending"
    /\ sum' = [sum EXCEPT !.results[i] = Done(Aggregate(i, orders, sum.today))]
    /\ UNCHANGED <<call, settings, orders, nextId, req, res, made, gone, dirty>>

\* a query that has not returned throws: Promise.all rejects and the catch
\* block answers 500, whichever query it was
SumReject ==
    /\ sum.pc = "queries"
    /\ {i \in 1..NumQueries : sum.results[i].st = "pending"} # {}
    /\ sum' = Answered(500, <<>>, {j \in 1..NumQueries : sum.results[j].st = "done"})
    /\ UNCHANGED <<call, settings, orders, nextId, req, res, made, gone, dirty>>

\* the handler after await Promise.all(queries)
SumCompose ==
    /\ sum.pc = "queries"
    /\ AllSettled(sum.results)
    /\ sum' = Answered(200, Summary(sum.today, sum.ctx, sum.results),
                       {i \in 1..NumQueries : sum.results[i].st = "done"})
    /\ UNCHANGED <<call, settings, orders, nextId, req, res, made, gone, dirty>>

\* the client has the answer
SumClose ==
    /\ sum.pc = "done"
    /\ sum' = NoSum
    /\ dirty' = FALSE
    /\ UNCHANGED <<call, settings, orders, nextId, req, res, made, gone>>

(***************************************************************************)
(* The order handlers as single steps, from request to response, for the   *)
(* runs in which only the table is observed.  A handler whose query throws *)
(* changes nothing.                                                        *)
(***************************************************************************)
\* some of the summary's queries have run and some have not
MidFlight ==
    /\ sum.pc = "queries"
    /\ \E i \in 1..NumQueries : sum.results[i].st = "done"
    /\ \E i \in 1..NumQueries : sum.results[i].st = "pending"

PostOrder(body, maxId) ==
    /\ nextId <= maxId
    /\ LET params == Params(Payload(body, getBaseRate(settings), Today))
       IN  /\ Bindable(params)
           /\ orders' = (nextId :> RowOf(params)) @@ orders
    /\ nextId' = nextId + 1
    /\ dirty' = (dirty \/ MidFlight)
    /\ UNCHANGED <<call, settings, req, res, made, gone, sum>>

PutOrder(id, body) ==
    /\ AffectedRows(orders, id) # 0
    /\ LET params == Params(Payload(body, getBaseRate(settings), Today))
       IN  /\ Bindable(params)
           /\ orders' = [orders EXCEPT ![id] = RowOf(params)]
    /\ dirty' = (dirty \/ MidFlight)
    /\ UNCHANGED <<call, settings, nextId, req, res, made, gone, sum>>

DeleteOrderOnly(id) ==
    /\ AffectedRows(orders, id) # 0
    /\ orders' = [i \in DOMAIN orders \ {id} |-> orders[i]]
    /\ dirty' = (dirty \/ MidFlight)
    /\ UNCHANGED <<call, settings, nextId, req, res, made, gone, sum>>

\* creates of the summary runs: dated the next day, unpaid by default, at the
\* base rate
SumPostBodies ==
    {Body(Num(100), Num(20), Num(5000), Num(2000), Num(3000), Undefined, NextDay, Undefined)}

\* updates of the summary runs: dated today by default, paid, at 1350
SumPutBodies ==
    {Body(Num(100), Num(20), Num(7000), Num(2000), Num(3000), Num(1350), Undefined,
          Str("Paid"))}

\* updates while summaries race with writes: the created order, now paid
RacePutBodies ==
    {Body(Num(100), Num(20), Num(5000), Num(2000), Num(3000), Undefined, NextDay,
          Str("Paid"))}

\* the bound on the ids assigned while summaries race with writes
MaxRaceId == 1

InitSum ==
    /\ call = NoCall
    /\ settings \in {<<>>, <<[exchange_rate |-> NumStr(1300), updated_at |-> Today]>>}
    /\ orders = <<>>
    /\ nextId = 1
    /\ req = [h \in Handlers |-> Idle]
    /\ res = NoRes
    /\ made = <<>>
    /\ gone = {}
    /\ sum = NoSum
    /\ dirty = FALSE

InitRace ==
    /\ InitSum
    /\ settings # <<>>

\* summaries whose queries interleave with creates and updates of orders
NextRace ==
    \/ \E body \in SumPostBodies : PostOrder(body, MaxRaceId)
    \/ \E id \in 1..MaxRaceId, body \in RacePutBodies : PutOrder(id, body)
    \/ \E ok \in BOOLEAN : SumStart(Undefined, ok)
    \/ \E i \in 1..NumQueries : SumQuery(i)
    \/ SumReject
    \/ SumCompose

SpecRace == InitRace /\ [][NextRace]_vars

\* summaries taken while no order request is being served
NextQuiet ==
    \/ sum.pc = "idle" /\ \E body \in SumPostBodies : PostOrder(body, MaxId)
    \/ sum.pc = "idle" /\ \E id \in 1..MaxId, body \in SumPutBodies : PutOrder(id, body)
    \/ sum.pc = "idle" /\ \E id \in 1..MaxId : DeleteOrderOnly(id)
    \/ \E date \in {Undefined, NextDay}, ok \in BOOLEAN : SumStart(date, ok)
    \/ \E i \in 1..NumQueries : SumQuery(i)
    \/ SumReject
    \/ SumCompose
    \/ SumClose

SpecQuiet == InitSum /\ [][NextQuiet]_vars

(***************************************************************************)
(* Claims about the order handlers.                                        *)
(***************************************************************************)
\* a handler sent a response in this step
Responded == res' # res \/ \E h \in Handlers : req[h].pc # "idle" /\ req'[h].pc = "idle"

\* C1: round trip: an order read back by id, with no update of that id since
\* its create, carries rate = r and the derived fields of computeTotals(input, r)
\* for the input of the create and the base rate r its getBaseRate read,
\* whatever happened to the settings rate and to other orders since.
C1_RoundTrip ==
    (res.op = "get" /\ res.status = 200 /\ made[res.id].intact) =>
        LET want == computeTotals(made[res.id].body, made[res.id].rate)
        IN  /\ res.body.rate = made[res.id].rate
            /\ \A f \in DerivedFields : res.body[f] = want[f]

\* C1 happens: an order is read back after the settings rate changed and after
\* another order was created, updated or deleted
C1_Witness ==
    /\ res.op = "get" /\ res.status = 200 /\ made[res.id].intact
    /\ getBaseRate(settings) # made[res.id].rate
    /\ res.body.customer_rate = made[res.id].rate
    /\ \E j \in DOMAIN made : j # res.id /\ (j \in gone \/ ~made[j].intact)

\* C2: an update of an existing order replaces every input field and
\* recomputes every derived field from the new inputs and the base rate the
\* update read: the stored rate is that rate, the stored fields are those of
\* computeTotals(newInput, that rate), and changing customer_rate from 1350
\* to 1300 at base rate 1300 stores rate_profit_lak = 0.
C2_UpdateRecomputes ==
    [][\A h \in Handlers :
        (req[h].pc = "put" /\ req'[h].pc = "idle" /\ res'.status = 200) =>
            LET id   == req[h].id
                want == computeTotals(req[h].body, req[h].baseRate)
            IN  /\ id \in DOMAIN orders
                /\ orders'[id].rate = req[h].baseRate
                /\ \A f \in DOMAIN want : orders'[id][f] = want[f]
                /\ orders'[id].order_date = Or(req[h].body.order_date, Today)
                /\ orders'[id].payment_status = Or(req[h].body.payment_status, Str("Unpaid"))
                /\ (/\ orders[id].customer_rate = Num(1350)
                    /\ req[h].body.customer_rate = Num(1300)
                    /\ req[h].baseRate = Num(1300))
                      => orders'[id].rate_profit_lak = Num(0)]_vars

\* C2 happens: an update stored customer_rate 1300 at a base rate other than
\* the one the settings row started with
C2_Witness ==
    /\ res.op = "put" /\ res.status = 200
    /\ orders[res.id].customer_rate = Num(1300)
    /\ orders[res.id].rate = Num(1350)
    /\ orders[res.id].rate_profit_lak = Num(-6000)

\* C3: a read, update or delete of an id that is not in the orders table is
\* answered 404, unless a query threw, which is answered 500; a 404 leaves the
\* table unchanged; a delete of an existing id removes exactly that row, and
\* the id is not found afterwards.
C3_NotFound ==
    /\ [](res.status \in {0, 200, 201, 404, 500})
    /\ [](res.status = 404 => res.op \in {"get", "put", "delete"}
                               /\ res.id \notin DOMAIN orders)
    /\ [](\A id \in gone : id \notin DOMAIN orders)
    /\ []((res.op = "get" /\ res.id \in gone) => res.status \in {404, 500})
    /\ [][(Responded /\ res'.op \in {"get", "put", "delete"}) =>
            /\ res'.id \notin DOMAIN orders => res'.status \in {404, 500}
            /\ res'.id \in DOMAIN orders => res'.status \in {200, 500}
            /\ res'.status \in {404, 500} => orders' = orders]_vars
    /\ [][(res' # res /\ res'.op = "delete" /\ res'.status = 200) =>
            /\ res'.id \in DOMAIN orders
            /\ DOMAIN orders' = DOMAIN orders \ {res'.id}
            /\ \A i \in DOMAIN orders' : orders'[i] = orders[i]]_vars

\* C3 happens: an id that a delete removed is read and not found
C3_Witness ==
    /\ res.op = "get" /\ res.status = 404 /\ res.id \in gone
    /\ DOMAIN orders # {}

(***************************************************************************)
(* Claims about the summary.                                               *)
(***************************************************************************)
\* the sums and counts of a summary object
SummaryNumbers(b) ==
    {b.today.total_lak, b.today.profit_total, b.today.rate_profit, b.today.other_profit,
     b.today.orders_count, b.month.total_lak, b.month.profit_total,
     b.payments.paid_orders, b.payments.unpaid_orders, b.payments.unpaid_value_lak,
     b.gross_value_lak, b.all_orders_count}

\* C5: over an empty orders table, also after every order was deleted, each
\* sum and count of the summary is the number 0, never null or absent; with
\* no settings row, rate is 0 and rate_updated is null.
C5_EmptyIsZero ==
    (sum.status = 200 /\ orders = <<>>) =>
        /\ SummaryNumbers(sum.body) = {Num(0)}
        /\ settings = <<>> => sum.body.rate = Num(0) /\ sum.body.rate_updated = Null

\* C5 happens: a summary of a table emptied by deletes, with no settings row
C5_Witness ==
    /\ sum.status = 200 /\ orders = <<>> /\ nextId > 2
    /\ settings = <<>>

\* C6: the summary is answered 200 only when all eleven queries have returned,
\* in whatever order; when a query throws, the answer is 500 with no summary
\* object, whatever the other queries had returned.
C6_FanIn ==
    /\ sum.pc = "queries" => sum.status = 0 /\ sum.body = <<>>
    /\ sum.pc = "done" =>
          /\ sum.status \in {200, 500}
          /\ sum.status = 200 <=> sum.settled = 1..NumQueries
          /\ sum.status = 200 => sum.body # <<>>
          /\ sum.status = 500 => sum.body = <<>>

\* C6 happens: a query threw after ten others had returned, the first of the
\* array among them, and the answer is 500
C6_Witness ==
    /\ sum.status = 500
    /\ Cardinality(sum.settled) = 10
    /\ 11 \in sum.settled /\ 1 \notin sum.settled

OtherProfit(row) ==
    row.service_fee_lak.n + row.th_to_la_charge_lak.n - row.actual_th_to_la_cost_lak.n

RECURSIVE OtherProfitOver(_, _)
OtherProfitOver(T, S) ==
    IF S = {} THEN 0
    ELSE LET i == CHOOSE x \in S : TRUE
         IN  OtherProfit(T[i]) + OtherProfitOver(T, S \ {i})

\* C9: every stored order has net_profit_lak = rate_profit_lak +
\* service_fee_lak + th_to_la_charge_lak - actual_th_to_la_cost_lak, and a
\* summary taken with no write running beside it reports as today.other_profit
\* the sum of service_fee_lak + th_to_la_charge_lak - actual_th_to_la_cost_lak
\* over the orders of its date.
C9_ProfitSplit ==
    /\ \A id \in DOMAIN orders :
          orders[id].net_profit_lak = Num(orders[id].rate_profit_lak.n + OtherProfit(orders[id]))
    /\ sum.status = 200 =>
          sum.body.today.other_profit =
              Num(OtherProfitOver(orders, {id \in DOMAIN orders :
                                              orders[id].order_date = sum.body.date}))

\* C9 happens: a summary of a day with two orders that made a rate profit
C9_Witness ==
    /\ sum.status = 200
    /\ sum.body.today.orders_count = Num(2)
    /\ sum.body.today.rate_profit.n > 0
    /\ sum.body.today.other_profit = Num(12000)
    /\ sum.body.all_orders_count = Num(2)

=============================================================================
